---- MODULE Spec2Model ----
(***************************************************************************)
(* Model of the YUV 4:2:0 semi-planar to ARGB8888 conversion               *)
(* (image_utils/yuv2rgb.cc) and of the JNI bindings that call it           *)
(* (image_utils/imageutils_jni.cc).                                        *)
(*                                                                         *)
(* Four specifications share the module:                                   *)
(*   Spec           one call of ConvertYUV420SPToARGB8888, pixel by pixel  *)
(*   SpecConcurrent two calls on independent buffers, interleaved          *)
(*   SpecPixel      the colour math YUV2RGB on sampled (nY, nU, nV)        *)
(*   SpecJni        the buffer-based bindings, one JNI call per step       *)
(***************************************************************************)
EXTENDS Integers, Sequences, FiniteSets

\* ------------------------------------------------------------------------
\* Bounds of the model
\* ------------------------------------------------------------------------

\* Spec: frames are 2*hw wide and 2*hh high, hw <= MaxHalfWidth, hh <= MaxHalfHeight.
MaxHalfWidth == 2

MaxHalfHeight == 2

\* Spec: a plane holds the Palette values at positions stride*i + seed, for a
\* stride of Strides and seed <= MaxSeed.
MaxSeed == 3

\* SpecConcurrent: frames are 2*hw wide and two rows high, hw <= ConcMaxHalfWidth.
ConcMaxHalfWidth == 2

\* SpecConcurrent: plane seeds range over 0..ConcMaxSeed.
ConcMaxSeed == 1

\* SpecPixel: the samples include the grid (i * 255) \div GridSteps, i <= GridSteps.
GridSteps == 8

\* Sample values the planes are filled with: the limits of the 8-bit range,
\* the luma floor 16, the chroma centre 128 and the test vectors' values.
Palette == <<16, 235, 81, 90, 240, 128, 0, 255>>

\* Stride 0 gives a plane of one value, stride 1 one that runs through Palette.
Strides == {0, 1}

\* The values an out-of-range read may deliver (undefined behaviour).
Garbage == {0, 255}

\* The two invocations of the concurrent specification.
Calls == {"A", "B"}

\* ------------------------------------------------------------------------
\* yuv2rgb.cc: the colour math
\* ------------------------------------------------------------------------

MAX(a, b) == IF a > b THEN a ELSE b

MIN(a, b) == IF a < b THEN a ELSE b

kMaxChannelValue == 262143

\* Bit operations. A 32-bit word is held as the two's-complement int with
\* the same bits, which is the jint the Java int array receives: 0xff000000
\* is -16777216.
Pow2(n) == 2 ^ n

RECURSIVE BitOr(_, _)
BitOr(a, b) ==
    IF a = 0 THEN b
    ELSE IF b = 0 THEN a
    ELSE IF a = -1 \/ b = -1 THEN -1
    ELSE MAX(a % 2, b % 2) + 2 * BitOr(a \div 2, b \div 2)

\* a << n, for the operands the code shifts: bytes, by 8 or 16 bits.
ShiftLeft(a, n) == a * Pow2(n)

\* a >> n on an int (arithmetic shift).
ShiftRight(a, n) == a \div Pow2(n)

\* a & 0xff.
LowByte(a) == a % 256

\* Variant: the floor at 0 left out.
LumaAdjNoFloor(nY) == nY - 16

\* nY -= 16; if (nY < 0) nY = 0;
LumaAdj(nY) == MAX(nY - 16, 0)

\* nU -= 128; nV -= 128;
ChromaAdj(c) == c - 128

\* Variants of the sums: red taken from U, and green's 0.813 * 1024 = 832.5
\* truncated instead of rounded.
SumRFromU(y, u, v) == 1192 * y + 1634 * u

SumGTruncated(y, u, v) == 1192 * y - 832 * v - 400 * u

\* The three sums before clamping, over the adjusted values. They are kept
\* as unbounded integers so that a sum leaving the int range can be seen.
SumR(y, u, v) == 1192 * y + 1634 * v

SumG(y, u, v) == 1192 * y - 833 * v - 400 * u

SumB(y, u, v) == 1192 * y + 2066 * u

\* Variant: a ceiling of 19 bits.
ClampWide(c) == MIN(2 * kMaxChannelValue + 1, MAX(0, c))

Clamp(c) == MIN(kMaxChannelValue, MAX(0, c))

Shifted(c) == ShiftRight(Clamp(c), 10)

Channel(c) == LowByte(Shifted(c))

\* Variant: the alpha byte left out.
PackNoAlpha(nR, nG, nB) == BitOr(BitOr(ShiftLeft(nR, 16), ShiftLeft(nG, 8)), nB)

Pack(nR, nG, nB) ==
    BitOr(BitOr(BitOr(-16777216, ShiftLeft(nR, 16)), ShiftLeft(nG, 8)), nB)

YUV2RGB(nY, nU, nV) ==
    LET y == LumaAdj(nY)
        u == ChromaAdj(nU)
        v == ChromaAdj(nV)
    IN  Pack(Channel(SumR(y, u, v)), Channel(SumG(y, u, v)), Channel(SumB(y, u, v)))

\* The bytes of a packed pixel.
AlphaOf(p) == (p \div Pow2(24)) % 256

RedOf(p) == (p \div Pow2(16)) % 256

GreenOf(p) == (p \div Pow2(8)) % 256

BlueOf(p) == p % 256

\* ------------------------------------------------------------------------
\* yuv2rgb.cc: the loop of ConvertYUV420SPToARGB8888
\* ------------------------------------------------------------------------

VARIABLES
    apple,       \* the build: TRUE when __APPLE__ is defined
    width,       \* per call: the arguments
    height,
    uv_flipped,
    yData,       \* per call: the Y plane, indexed from 0
    uvData,      \* per call: the interleaved chroma plane, indexed from 0
    output,      \* per call: the output buffer, indexed from 0
    x,           \* per call: the loop counters
    y,
    pY,          \* per call: pY - yData
    out,         \* per call: out - output
    nY,          \* per call: the locals of the loop body
    nU,
    nV,
    pc,          \* per call: "idle", "load", "store", "done"
    yReads,      \* per call: the Y-plane index read for each pixel, in order
    uvReads,     \* per call: the chroma-plane indices read for each pixel, in order
    outWrites    \* per call: the output indices written, in order

coreVars ==
    <<apple, width, height, uv_flipped, yData, uvData, output, x, y, pY, out,
      nY, nU, nV, pc, yReads, uvReads, outWrites>>

\* Variants of the offset: y not halved, and x not rounded down to its pair.
ChromaOffsetFullRows(xx, yy, w) == yy * w + 2 * ShiftRight(xx, 1)

ChromaOffsetPerPixel(xx, yy, w) == ShiftRight(yy, 1) * w + xx

\* int offset = (y >> 1) * width + 2 * (x >> 1);
ChromaOffset(xx, yy, w) == ShiftRight(yy, 1) * w + 2 * ShiftRight(xx, 1)

\* Which of the two bytes at offset is U and which is V.
IndexOfU(offset, isApple) == IF isApple THEN offset ELSE offset + 1

IndexOfV(offset, isApple) == IF isApple THEN offset + 1 ELSE offset

\* The values a read of buf[i] may deliver.
Deref(buf, i) == IF i \in DOMAIN buf THEN {buf[i]} ELSE Garbage

\* The plane after *p = v at index i; a write outside the buffer is logged
\* by the caller and leaves the buffer as it is.
Assign(buf, i, v) == IF i \in DOMAIN buf THEN [buf EXCEPT ![i] = v] ELSE buf

\* Variant: the flag ignored.
EmitUnflipped(ly, lu, lv, flipped) == YUV2RGB(ly, lu, lv)

\* if (uv_flipped) YUV2RGB(nY, nV, nU) else YUV2RGB(nY, nU, nV)
Emit(ly, lu, lv, flipped) ==
    IF flipped THEN YUV2RGB(ly, lv, lu) ELSE YUV2RGB(ly, lu, lv)

\* Variant: locals with static storage, one set for all calls.
LocalsOfStatic(c) == "A"

\* Where the locals nY, nU, nV of call c live: they are automatic variables
\* of the loop body, one set per call.
LocalsOf(c) == c

\* The loop test after x++: the position of the next iteration.
NextX(xx, w) == IF xx + 1 < w THEN xx + 1 ELSE 0

NextY(xx, yy, w) == IF xx + 1 < w THEN yy ELSE yy + 1

\* Lines 71-79: read the luma sample and the chroma pair.
LoadPixel(c) ==
    /\ pc[c] = "load"
    /\ LET offset == ChromaOffset(x[c], y[c], width[c])
           iu == IndexOfU(offset, apple)
           iv == IndexOfV(offset, apple)
       IN  /\ \E ly \in Deref(yData[c], pY[c]),
                 lu \in Deref(uvData[c], iu),
                 lv \in Deref(uvData[c], iv) :
                  /\ nY' = [nY EXCEPT ![LocalsOf(c)] = ly]
                  /\ nU' = [nU EXCEPT ![LocalsOf(c)] = lu]
                  /\ nV' = [nV EXCEPT ![LocalsOf(c)] = lv]
           /\ yReads' = [yReads EXCEPT ![c] = Append(@, pY[c])]
           /\ uvReads' = [uvReads EXCEPT ![c] = Append(@, {iu, iv})]
    /\ pY' = [pY EXCEPT ![c] = @ + 1]
    /\ pc' = [pc EXCEPT ![c] = "store"]
    /\ UNCHANGED <<apple, width, height, uv_flipped, yData, uvData, output,
                   x, y, out, outWrites>>

\* Lines 81-86 and the loop increments: convert, store, advance.
StorePixel(c) ==
    /\ pc[c] = "store"
    /\ output' = [output EXCEPT
                     ![c] = Assign(@, out[c],
                                   Emit(nY[LocalsOf(c)], nU[LocalsOf(c)],
                                        nV[LocalsOf(c)], uv_flipped[c]))]
    /\ outWrites' = [outWrites EXCEPT ![c] = Append(@, out[c])]
    /\ out' = [out EXCEPT ![c] = @ + 1]
    /\ x' = [x EXCEPT ![c] = NextX(x[c], width[c])]
    /\ y' = [y EXCEPT ![c] = NextY(x[c], y[c], width[c])]
    /\ pc' = [pc EXCEPT
                 ![c] = IF NextY(x[c], y[c], width[c]) < height[c] THEN "load" ELSE "done"]
    /\ UNCHANGED <<apple, width, height, uv_flipped, yData, uvData, pY,
                   nY, nU, nV, yReads, uvReads>>

\* The value the loop stores for pixel (xx, yy) of a frame.
PixelAt(yPlane, uvPlane, w, xx, yy, flipped, isApple) ==
    LET offset == ChromaOffset(xx, yy, w)
    IN  Emit(yPlane[yy * w + xx],
             uvPlane[IndexOfU(offset, isApple)],
             uvPlane[IndexOfV(offset, isApple)],
             flipped)

\* ------------------------------------------------------------------------
\* The colour math alone: one call of YUV2RGB
\* ------------------------------------------------------------------------

VARIABLES
    argY,        \* the arguments nY, nU, nV of the call
    argU,
    argV,
    sums,        \* the three sums before clamping
    ret,         \* the returned pixel
    pxPc         \* "idle", "call", "done"

pixelVars == <<argY, argU, argV, sums, ret, pxPc>>

\* Lines 30-55: the whole of YUV2RGB on the arguments.
CallYUV2RGB ==
    /\ pxPc = "call"
    /\ sums' = [R |-> SumR(LumaAdj(argY), ChromaAdj(argU), ChromaAdj(argV)),
                G |-> SumG(LumaAdj(argY), ChromaAdj(argU), ChromaAdj(argV)),
                B |-> SumB(LumaAdj(argY), ChromaAdj(argU), ChromaAdj(argV))]
    /\ ret' = YUV2RGB(argY, argU, argV)
    /\ pxPc' = "done"
    /\ UNCHANGED <<argY, argU, argV>>

\* ------------------------------------------------------------------------
\* imageutils_jni.cc: the buffer-based bindings
\* ------------------------------------------------------------------------

VARIABLES
    method,          \* the binding running: one of Bindings, or "none"
    isInputDirect,   \* the arguments
    isOutputDirect,
    jWidth,
    jHeight,
    jFlipped,
    input,           \* the locals: where each pointer came from, or "unset"
    jOutput,
    jpc,             \* the position in the binding
    jniLog           \* the JNI calls and the conversion call made so far

jniVars ==
    <<method, isInputDirect, isOutputDirect, jWidth, jHeight, jFlipped,
      input, jOutput, jpc, jniLog>>

Bindings == {"yuv420spToArgb8888", "argb8888ToYuv420sp"}

\* The element type of each side's array, and the routine each binding calls.
InputType(m) == IF m = "yuv420spToArgb8888" THEN "Byte" ELSE "Int"

OutputType(m) == IF m = "yuv420spToArgb8888" THEN "Int" ELSE "Byte"

Routine(m) ==
    IF m = "yuv420spToArgb8888" THEN "ConvertYUV420SPToARGB8888"
    ELSE "ConvertARGB8888ToYUV420SP"

\* The arguments after the pointers: the forward routine is given the chroma
\* plane at input + width * height, and uvFlipped.
ConvertArgs(m, w, h, f) ==
    IF m = "yuv420spToArgb8888" THEN <<w * h, w, h, f>> ELSE <<w, h>>

\* if ((bool) isDirect) GetDirectBufferAddress(buffer) else Get<T>ArrayElements(array)
AcquireEvent(side, type, direct) ==
    IF direct
    THEN [op |-> "GetDirectBufferAddress", side |-> side, type |-> "Buffer",
          ptr |-> "direct", mode |-> "-", args |-> <<>>]
    ELSE [op |-> "GetArrayElements", side |-> side, type |-> type,
          ptr |-> "elements", mode |-> "-", args |-> <<>>]

\* Variant: the clean-up releases whether or not the array was acquired.
MustReleaseAlways(direct) == TRUE

\* if (!(bool) isDirect): whether the clean-up releases the side's array.
MustRelease(direct) == ~direct

\* The mode of each side's release.
InputReleaseMode == "JNI_ABORT"

OutputReleaseMode == "0"

ReleaseEvent(side, type, ptr, mode) ==
    [op |-> "ReleaseArrayElements", side |-> side, type |-> type, ptr |-> ptr,
     mode |-> mode, args |-> <<>>]

\* Lines 107-115 and 148-156: assign the input pointer.
AcquireInput ==
    /\ jpc = "acquireInput"
    /\ LET e == AcquireEvent("input", InputType(method), isInputDirect)
       IN  /\ jniLog' = Append(jniLog, e)
           /\ input' = e.ptr
    /\ jpc' = "acquireOutput"
    /\ UNCHANGED <<method, isInputDirect, isOutputDirect, jWidth, jHeight,
                   jFlipped, jOutput>>

\* Lines 118-126 and 159-167: assign the output pointer.
AcquireOutput ==
    /\ jpc = "acquireOutput"
    /\ LET e == AcquireEvent("output", OutputType(method), isOutputDirect)
       IN  /\ jniLog' = Append(jniLog, e)
           /\ jOutput' = e.ptr
    /\ jpc' = "convert"
    /\ UNCHANGED <<method, isInputDirect, isOutputDirect, jWidth, jHeight,
                   jFlipped, input>>

\* Lines 129 and 170: the conversion, called with the two pointers.
Convert ==
    /\ jpc = "convert"
    /\ jniLog' = Append(jniLog,
                        [op |-> Routine(method), side |-> "both", type |-> "-",
                         ptr |-> <<input, jOutput>>, mode |-> "-",
                         args |-> ConvertArgs(method, jWidth, jHeight, jFlipped)])
    /\ jpc' = "releaseInput"
    /\ UNCHANGED <<method, isInputDirect, isOutputDirect, jWidth, jHeight,
                   jFlipped, input, jOutput>>

\* Lines 132-134 and 173-175.
ReleaseInput ==
    /\ jpc = "releaseInput"
    /\ jniLog' = IF MustRelease(isInputDirect)
                 THEN Append(jniLog, ReleaseEvent("input", InputType(method), input,
                                                  InputReleaseMode))
                 ELSE jniLog
    /\ jpc' = "releaseOutput"
    /\ UNCHANGED <<method, isInputDirect, isOutputDirect, jWidth, jHeight,
                   jFlipped, input, jOutput>>

\* Lines 136-138 and 177-179, and the return.
ReleaseOutput ==
    /\ jpc = "releaseOutput"
    /\ jniLog' = IF MustRelease(isOutputDirect)
                 THEN Append(jniLog, ReleaseEvent("output", OutputType(method), jOutput,
                                                  OutputReleaseMode))
                 ELSE jniLog
    /\ jpc' = "return"
    /\ UNCHANGED <<method, isInputDirect, isOutputDirect, jWidth, jHeight,
                   jFlipped, input, jOutput>>

\* ------------------------------------------------------------------------
\* Initial states
\* ------------------------------------------------------------------------

EmptyPlane == [i \in {} |-> 0]

\* A plane of n samples: Palette values at positions stride*i + seed.
Plane(n, stride, seed) ==
    [i \in 0 .. n - 1 |-> Palette[((stride * i + seed) % Len(Palette)) + 1]]

Frame(w, h, f, yp, uvp) ==
    [w |-> w, h |-> h, f |-> f, yp |-> yp, uvp |-> uvp, active |-> TRUE]

IdleCall ==
    [w |-> 0, h |-> 0, f |-> FALSE, yp |-> EmptyPlane, uvp |-> EmptyPlane,
     active |-> FALSE]

\* The frames of the sequential specification: every even size up to the
\* bounds, a Y plane of width*height samples and a chroma plane of half as many.
SeqFrames ==
    { Frame(2 * hw, 2 * hh, f,
            Plane(4 * hw * hh, ys, yb), Plane(2 * hw * hh, us, ub)) :
        hw \in 1 .. MaxHalfWidth, hh \in 1 .. MaxHalfHeight, f \in BOOLEAN,
        ys \in Strides, us \in Strides,
        yb \in 0 .. MaxSeed, ub \in 0 .. MaxSeed }

\* The frames of the concurrent specification: two rows, varying width.
ConcFrames ==
    { Frame(2 * hw, 2, f, Plane(4 * hw, 1, s), Plane(2 * hw, 1, s + 3)) :
        hw \in 1 .. ConcMaxHalfWidth, f \in BOOLEAN, s \in 0 .. ConcMaxSeed }

\* The state at entry of ConvertYUV420SPToARGB8888 for each call of cfg. The
\* caller's output buffer holds width*height pixels, here zero before the call.
InitCore(cfg, isApple) ==
    /\ apple = isApple
    /\ width = [c \in Calls |-> cfg[c].w]
    /\ height = [c \in Calls |-> cfg[c].h]
    /\ uv_flipped = [c \in Calls |-> cfg[c].f]
    /\ yData = [c \in Calls |-> cfg[c].yp]
    /\ uvData = [c \in Calls |-> cfg[c].uvp]
    /\ output = [c \in Calls |-> [i \in 0 .. cfg[c].w * cfg[c].h - 1 |-> 0]]
    /\ x = [c \in Calls |-> 0]
    /\ y = [c \in Calls |-> 0]
    /\ pY = [c \in Calls |-> 0]
    /\ out = [c \in Calls |-> 0]
    /\ nY = [c \in Calls |-> 0]
    /\ nU = [c \in Calls |-> 0]
    /\ nV = [c \in Calls |-> 0]
    /\ pc = [c \in Calls |-> IF cfg[c].active THEN "load" ELSE "idle"]
    /\ yReads = [c \in Calls |-> <<>>]
    /\ uvReads = [c \in Calls |-> <<>>]
    /\ outWrites = [c \in Calls |-> <<>>]

CoreIdle == InitCore([c \in Calls |-> IdleCall], FALSE)

Samples ==
    {Palette[i] : i \in 1 .. Len(Palette)} \cup {15, 17, 127, 129}
        \cup {(i * 255) \div GridSteps : i \in 0 .. GridSteps}

InitPixel(sy, su, sv) ==
    /\ argY = sy
    /\ argU = su
    /\ argV = sv
    /\ sums = [R |-> 0, G |-> 0, B |-> 0]
    /\ ret = 0
    /\ pxPc = "call"

PixelIdle ==
    /\ argY = 0
    /\ argU = 0
    /\ argV = 0
    /\ sums = [R |-> 0, G |-> 0, B |-> 0]
    /\ ret = 0
    /\ pxPc = "idle"

\* A binding entered with its arguments.
InitJni(m, inDirect, outDirect, w, h, f) ==
    /\ method = m
    /\ isInputDirect = inDirect
    /\ isOutputDirect = outDirect
    /\ jWidth = w
    /\ jHeight = h
    /\ jFlipped = f
    /\ input = "unset"
    /\ jOutput = "unset"
    /\ jpc = "acquireInput"
    /\ jniLog = <<>>

JniIdle ==
    /\ method = "none"
    /\ isInputDirect = FALSE
    /\ isOutputDirect = FALSE
    /\ jWidth = 0
    /\ jHeight = 0
    /\ jFlipped = FALSE
    /\ input = "unset"
    /\ jOutput = "unset"
    /\ jpc = "idle"
    /\ jniLog = <<>>

vars == <<coreVars, pixelVars, jniVars>>

\* One call of ConvertYUV420SPToARGB8888 (call "A").
Init ==
    /\ \E isApple \in BOOLEAN, fr \in SeqFrames :
          InitCore([c \in Calls |-> IF c = "A" THEN fr ELSE IdleCall], isApple)
    /\ PixelIdle
    /\ JniIdle

Next ==
    \/ LoadPixel("A") /\ UNCHANGED <<pixelVars, jniVars>>
    \/ StorePixel("A") /\ UNCHANGED <<pixelVars, jniVars>>

Spec == Init /\ [][Next]_vars

\* Two calls on independent buffers, their steps interleaved.
InitConcurrent ==
    /\ \E isApple \in BOOLEAN, fa \in ConcFrames, fb \in ConcFrames :
          InitCore([c \in Calls |-> IF c = "A" THEN fa ELSE fb], isApple)
    /\ PixelIdle
    /\ JniIdle

NextConcurrent ==
    \/ \E c \in Calls : LoadPixel(c) /\ UNCHANGED <<pixelVars, jniVars>>
    \/ \E c \in Calls : StorePixel(c) /\ UNCHANGED <<pixelVars, jniVars>>

SpecConcurrent == InitConcurrent /\ [][NextConcurrent]_vars

\* One call of YUV2RGB on sampled arguments.
InitPixelSpec ==
    /\ CoreIdle
    /\ JniIdle
    /\ \E sy \in Samples, su \in Samples, sv \in Samples : InitPixel(sy, su, sv)

NextPixel == CallYUV2RGB /\ UNCHANGED <<coreVars, jniVars>>

SpecPixel == InitPixelSpec /\ [][NextPixel]_vars

\* One call of a buffer-based binding. argb8888ToYuv420sp takes no uvFlipped.
InitJniSpec ==
    /\ CoreIdle
    /\ PixelIdle
    /\ \E m \in Bindings, inDirect \in BOOLEAN, outDirect \in BOOLEAN,
          hw \in 1 .. MaxHalfWidth, hh \in 1 .. MaxHalfHeight, f \in BOOLEAN :
          /\ (m = "argb8888ToYuv420sp" => f = FALSE)
          /\ InitJni(m, inDirect, outDirect, 2 * hw, 2 * hh, f)

NextJni ==
    \/ AcquireInput /\ UNCHANGED <<coreVars, pixelVars>>
    \/ AcquireOutput /\ UNCHANGED <<coreVars, pixelVars>>
    \/ Convert /\ UNCHANGED <<coreVars, pixelVars>>
    \/ ReleaseInput /\ UNCHANGED <<coreVars, pixelVars>>
    \/ ReleaseOutput /\ UNCHANGED <<coreVars, pixelVars>>

SpecJni == InitJniSpec /\ [][NextJni]_vars

\* ------------------------------------------------------------------------
\* Properties of one call of ConvertYUV420SPToARGB8888 (Spec, call "A")
\* ------------------------------------------------------------------------

\* The output indices the call has stored a pixel at.
Written == {outWrites["A"][k] : k \in 1 .. Len(outWrites["A"])} \cap DOMAIN output["A"]

NumPixels == width["A"] * height["A"]

Done == pc["A"] = "done"

\* The per-pixel formula as the specification words it.
SpecClamp(v) == IF v < 0 THEN 0 ELSE IF v > 262143 THEN 262143 ELSE v

SpecByte(v) == (SpecClamp(v) \div 1024) % 256

SpecLuma(sy) == IF sy - 16 > 0 THEN sy - 16 ELSE 0

SpecR(sy, su, sv) == SpecByte(1192 * SpecLuma(sy) + 1634 * (sv - 128))

SpecG(sy, su, sv) ==
    SpecByte(1192 * SpecLuma(sy) - 833 * (sv - 128) - 400 * (su - 128))

SpecB(sy, su, sv) == SpecByte(1192 * SpecLuma(sy) + 2066 * (su - 128))

\* 0xFF000000 | (R << 16) | (G << 8) | B as the int with the same 32 bits.
SpecPixel32(sy, su, sv) ==
    -16777216 + SpecR(sy, su, sv) * 65536 + SpecG(sy, su, sv) * 256 + SpecB(sy, su, sv)

SpecOff(idx, w) == ((idx \div w) \div 2) * w + 2 * ((idx % w) \div 2)

\* C1: with uv_flipped = false on a non-Apple build, at return every pixel
\* of the frame, at index y*width+x for 0 <= x < width, 0 <= y < height, equals
\* 0xFF000000 | R<<16 | G<<8 | B computed from Y[y*width+x], V = UV[off],
\* U = UV[off+1], off = (y>>1)*width + 2*(x>>1), by the fixed-point formulas.
C1_PerPixelFormula ==
    (Done /\ ~apple /\ ~uv_flipped["A"]) =>
        /\ Written = 0 .. NumPixels - 1
        /\ \A idx \in 0 .. NumPixels - 1 :
              output["A"][idx] =
                  SpecPixel32(yData["A"][idx],
                              uvData["A"][SpecOff(idx, width["A"]) + 1],
                              uvData["A"][SpecOff(idx, width["A"])])

\* A finished 4x4 frame, unflipped, non-Apple, whose pixels are not all alike
\* and one of which has a clamped channel next to an unclamped one.
C1_Witness ==
    /\ Done /\ ~apple /\ ~uv_flipped["A"]
    /\ width["A"] = 4 /\ height["A"] = 4
    /\ \E i, j \in Written : output["A"][i] # output["A"][j]
    /\ \E i \in Written :
          /\ RedOf(output["A"][i]) = 255
          /\ GreenOf(output["A"][i]) \in 1 .. 254

\* The chroma plane with the two bytes of every pair exchanged.
SwapPairs(uv) ==
    [i \in DOMAIN uv |-> IF i % 2 = 0 THEN uv[i + 1] ELSE uv[i - 1]]

\* C2: with uv_flipped = true the output at return equals, pixel for pixel,
\* what the loop stores with uv_flipped = false on the frame whose chroma
\* pairs are exchanged and whose Y plane is the same.
C2_FlipIsSwap ==
    (Done /\ uv_flipped["A"]) =>
        /\ Written = 0 .. NumPixels - 1
        /\ \A idx \in 0 .. NumPixels - 1 :
              output["A"][idx] =
                  PixelAt(yData["A"], SwapPairs(uvData["A"]), width["A"],
                          idx % width["A"], idx \div width["A"], FALSE, apple)

\* A finished flipped call on a frame where the flip matters: some pixel
\* differs from what the unflipped call stores for the same frame.
C2_Witness ==
    /\ Done /\ uv_flipped["A"] /\ width["A"] = 4
    /\ \E idx \in Written :
          output["A"][idx] #
              PixelAt(yData["A"], uvData["A"], width["A"],
                      idx % width["A"], idx \div width["A"], FALSE, apple)

C3_State ==
    /\ \A k \in 1 .. Len(yReads["A"]) : yReads["A"][k] \in 0 .. NumPixels - 1
    /\ \A k \in 1 .. Len(uvReads["A"]) :
          uvReads["A"][k] \subseteq 0 .. (NumPixels \div 2) - 1
    /\ \A k \in 1 .. Len(uvReads["A"]) :
          \A i \in uvReads["A"][k] : NumPixels + i < (NumPixels * 3) \div 2
    /\ Len(outWrites["A"]) <= NumPixels
    /\ \A k \in 1 .. Len(outWrites["A"]) : outWrites["A"][k] = k - 1
    /\ Done => Len(outWrites["A"]) = NumPixels

C3_PlanesKept ==
    /\ yData' = yData
    /\ uvData' = uvData

\* C3: a call reads only Y indices in [0, width*height) and chroma indices in
\* [0, width*height/2), so with the chroma plane at byte width*height of one
\* input never at or past byte width*height*3/2; it writes the output
\* indices 0, 1, ... in increasing order, each once, all width*height of them
\* by the return, and no step changes the Y or the chroma plane.
C3_ReadsAndWritesInBounds == [](C3_State) /\ [][C3_PlanesKept]_vars

\* A finished 4x4 frame whose last pixel read the last chroma pair and the
\* last Y sample.
C3_Witness ==
    /\ Done /\ width["A"] = 4 /\ height["A"] = 4
    /\ yReads["A"][16] = 15
    /\ uvReads["A"][16] = {6, 7}
    /\ outWrites["A"][16] = 15

\* C4: every stored pixel has the alpha byte 0xFF, whatever uv_flipped is.
C4_AlphaOpaque ==
    \A idx \in Written : AlphaOf(output["A"][idx]) = 255

\* A finished call with the flag set whose stored pixels include one with a
\* channel clamped to 0 and one with a channel clamped to 255.
C4_Witness ==
    /\ Done /\ uv_flipped["A"] /\ Written = 0 .. NumPixels - 1
    /\ \E i \in Written : GreenOf(output["A"][i]) = 0
    /\ \E i \in Written : BlueOf(output["A"][i]) = 255

\* The block (i, j) of the pixel stored at idx.
BlockOf(idx, w) == <<(idx % w) \div 2, (idx \div w) \div 2>>

PairOf(b, w) == {b[2] * w + 2 * b[1], b[2] * w + 2 * b[1] + 1}

\* The chroma plane with both bytes of block b's pair changed (to 255 - v).
WithPairChanged(uv, b, w) ==
    [i \in DOMAIN uv |-> IF i \in PairOf(b, w) THEN 255 - uv[i] ELSE uv[i]]

\* C6: each pixel reads exactly the chroma pair of its aligned 2x2 block;
\* at return, pixels of one block have read the same pair and pixels of
\* distinct blocks disjoint pairs, two pixels of a block with equal luma are
\* stored equal, and changing both bytes of any one chroma pair leaves every
\* pixel outside that pair's block as stored.
C6_BlockSharesChroma ==
    LET w == width["A"]
    IN  /\ \A k \in 1 .. Len(uvReads["A"]) :
              uvReads["A"][k] = PairOf(BlockOf(k - 1, w), w)
        /\ Done =>
              \A p, q \in 1 .. Len(uvReads["A"]) :
                  IF BlockOf(p - 1, w) = BlockOf(q - 1, w)
                  THEN uvReads["A"][p] = uvReads["A"][q]
                  ELSE uvReads["A"][p] \cap uvReads["A"][q] = {}
        /\ Done =>
              \A p, q \in Written :
                  (BlockOf(p, w) = BlockOf(q, w) /\ yData["A"][p] = yData["A"][q])
                      => output["A"][p] = output["A"][q]
        /\ Done =>
              \A b \in {BlockOf(q, w) : q \in Written} :
                  \A p \in Written :
                      BlockOf(p, w) # b =>
                          PixelAt(yData["A"], WithPairChanged(uvData["A"], b, w),
                                  w, p % w, p \div w, uv_flipped["A"], apple)
                              = output["A"][p]

\* A finished 4x4 frame with two equal-luma pixels in one block and two
\* blocks whose chroma pairs differ.
C6_Witness ==
    /\ Done /\ width["A"] = 4 /\ height["A"] = 4
    /\ yData["A"][0] = yData["A"][5]
    /\ output["A"][0] # output["A"][2]
    /\ <<uvData["A"][0], uvData["A"][1]>> # <<uvData["A"][2], uvData["A"][3]>>

\* ------------------------------------------------------------------------
\* Properties of the colour math (SpecPixel)
\* ------------------------------------------------------------------------

Returned == pxPc = "done"

Args == <<argY, argU, argV>>

\* C5: (Y, U, V) = (16, 128, 128) gives R = G = B = 0; (235, 128, 128) gives
\* R = G = B within 2 levels of 255; (81, 90, 240) gives R within 2 levels of
\* 255 and G = B = 0.
C5_KnownVectors ==
    Returned =>
        /\ Args = <<16, 128, 128>> =>
              /\ RedOf(ret) = 0 /\ GreenOf(ret) = 0 /\ BlueOf(ret) = 0
        /\ Args = <<235, 128, 128>> =>
              /\ RedOf(ret) \in 253 .. 255
              /\ GreenOf(ret) = RedOf(ret) /\ BlueOf(ret) = RedOf(ret)
        /\ Args = <<81, 90, 240>> =>
              /\ RedOf(ret) \in 253 .. 255
              /\ GreenOf(ret) = 0 /\ BlueOf(ret) = 0

\* YUV2RGB has returned for the red vector.
C5_Witness == Returned /\ Args = <<81, 90, 240>> /\ RedOf(ret) = 254

\* The comment of lines 36-40, its coefficients in thousandths:
\*   nR = 1.164 * nY + 2.018 * nU
\*   nG = 1.164 * nY - 0.813 * nV - 0.391 * nU
\*   nB = 1.164 * nY + 1.596 * nV
CommentR == [Y |-> 1164, U |-> 2018, V |-> 0]

CommentG == [Y |-> 1164, U |-> -391, V |-> -813]

CommentB == [Y |-> 1164, U |-> 0, V |-> 1596]

\* m / 1000 * 1024 rounded to the nearest integer.
Scaled1024(m) ==
    IF m >= 0 THEN (1024 * m + 500) \div 1000 ELSE -((1024 * (-m) + 500) \div 1000)

FixedPoint(cf, sy, su, sv) ==
    Scaled1024(cf.Y) * sy + Scaled1024(cf.U) * su + Scaled1024(cf.V) * sv

\* The coefficient the integer formula of a channel applies to each input.
CodeCoef(Sum(_, _, _)) ==
    [Y |-> Sum(1, 0, 0) - Sum(0, 0, 0),
     U |-> Sum(0, 1, 0) - Sum(0, 0, 0),
     V |-> Sum(0, 0, 1) - Sum(0, 0, 0)]

ScaledCoef(cf) == [Y |-> Scaled1024(cf.Y), U |-> Scaled1024(cf.U), V |-> Scaled1024(cf.V)]

FitsInt32(v) == v >= -2147483647 - 1 /\ v <= 2147483647

\* C10: for sampled nY, nU, nV in 0..255 every product and sum of YUV2RGB is
\* within the signed 32-bit range; each clamped sum shifted right by 10 is
\* already in 0..255, so the mask changes nothing; and the packed word holds
\* alpha, R, G, B in four separate bytes (the OR is their sum).
C10_NoOverflowMaskIdle ==
    Returned =>
        LET sy == LumaAdj(argY)
            su == ChromaAdj(argU)
            sv == ChromaAdj(argV)
        IN  /\ {argY, argU, argV} \subseteq 0 .. 255
            /\ \A t \in {1192 * sy, 1634 * sv, 833 * sv, 400 * su, 2066 * su,
                         1192 * sy - 833 * sv, sums.R, sums.G, sums.B} :
                  FitsInt32(t)
            /\ \A t \in {sums.R, sums.G, sums.B} :
                  /\ Shifted(t) \in 0 .. 255
                  /\ Channel(t) = Shifted(t)
            /\ ret = -16777216 + Shifted(sums.R) * 65536 + Shifted(sums.G) * 256
                         + Shifted(sums.B)
            /\ AlphaOf(ret) = 255
            /\ RedOf(ret) = Shifted(sums.R)
            /\ GreenOf(ret) = Shifted(sums.G)
            /\ BlueOf(ret) = Shifted(sums.B)

\* The call with the largest red sum has returned: it exceeds the ceiling.
C10_Witness ==
    /\ Returned
    /\ Args = <<255, 0, 255>>
    /\ sums.R > kMaxChannelValue
    /\ RedOf(ret) = 255

\* ------------------------------------------------------------------------
\* Properties of two concurrent calls (SpecConcurrent)
\* ------------------------------------------------------------------------

\* The output a call produces when it runs alone on its frame.
AloneOutput(c) ==
    [idx \in 0 .. width[c] * height[c] - 1 |->
        PixelAt(yData[c], uvData[c], width[c], idx % width[c], idx \div width[c],
                uv_flipped[c], apple)]

\* What belongs to call c: its buffers, its position and its locals.
StateOf(c) ==
    <<yData[c], uvData[c], output[c], x[c], y[c], pY[c], out[c],
      nY[c], nU[c], nV[c], pc[c], yReads[c], uvReads[c], outWrites[c]>>

C7_FinalOutput == \A c \in Calls : pc[c] = "done" => output[c] = AloneOutput(c)

\* A step that does not move call c changes nothing that belongs to c.
C7_NoSharedState == \A c \in Calls : pc'[c] = pc[c] => StateOf(c)' = StateOf(c)

\* C7: two calls on independent buffers share no mutable state: no step of
\* one call changes the other's buffers, position or locals, and under every
\* interleaving each call's output at return is the output it produces alone.
C7_ConcurrentCallsIndependent == [](C7_FinalOutput) /\ [][C7_NoSharedState]_vars

\* Both calls are in the middle of their loops, on frames of different
\* width and content, each having stored pixels and loaded the next.
C7_Witness ==
    /\ pc["A"] = "store" /\ pc["B"] = "store"
    /\ out["A"] > 1 /\ out["B"] > 1
    /\ width["A"] # width["B"]
    /\ nY["A"] # nY["B"]
    /\ uv_flipped["A"] # uv_flipped["B"]

\* ------------------------------------------------------------------------
\* Properties of the buffer-based bindings (SpecJni)
\* ------------------------------------------------------------------------

Sides == {"input", "output"}

IsDirect(side) == IF side = "input" THEN isInputDirect ELSE isOutputDirect

Gets(side) ==
    {k \in DOMAIN jniLog :
        jniLog[k].op = "GetArrayElements" /\ jniLog[k].side = side}

Releases(side) ==
    {k \in DOMAIN jniLog :
        jniLog[k].op = "ReleaseArrayElements" /\ jniLog[k].side = side}

Conversions ==
    {k \in DOMAIN jniLog :
        jniLog[k].op \in {"ConvertYUV420SPToARGB8888", "ConvertARGB8888ToYUV420SP"}}

\* C9: in both buffer-based bindings and for each combination of the two
\* direct flags: array elements are acquired for a side exactly when it is
\* not direct; the conversion routine is called once, after every
\* acquisition and before every release; at return each acquired array has
\* been released once and no other array is released; the input is released
\* with JNI_ABORT and the output with mode 0.
C9_AcquireConvertRelease ==
    /\ Cardinality(Conversions) <= 1
    /\ \A side \in Sides :
          /\ Cardinality(Gets(side)) <= 1
          /\ Cardinality(Releases(side)) <= Cardinality(Gets(side))
          /\ IsDirect(side) => Gets(side) = {} /\ Releases(side) = {}
          /\ \A r \in Releases(side) :
                /\ jniLog[r].ptr = "elements"
                /\ \E k \in Conversions : k < r
                /\ \A g \in Gets(side) : jniLog[g].type = jniLog[r].type
    /\ \A k \in Conversions :
          /\ jniLog[k].op = Routine(method)
          /\ \A side \in Sides :
                /\ ~IsDirect(side) => Gets(side) # {}
                /\ \A g \in Gets(side) : g < k
                /\ \A r \in Releases(side) : k < r
    /\ \A r \in Releases("input") : jniLog[r].mode = "JNI_ABORT"
    /\ \A r \in Releases("output") : jniLog[r].mode = "0"
    /\ jpc = "return" =>
          /\ Cardinality(Conversions) = 1
          /\ \A side \in Sides :
                /\ Cardinality(Gets(side)) = (IF IsDirect(side) THEN 0 ELSE 1)
                /\ Cardinality(Releases(side)) = Cardinality(Gets(side))

\* argb8888ToYuv420sp has returned with a direct input and an array output:
\* one array was acquired and released, the other side never touched.
C9_Witness ==
    /\ jpc = "return"
    /\ method = "argb8888ToYuv420sp"
    /\ isInputDirect /\ ~isOutputDirect
    /\ Cardinality(Releases("output")) = 1
    /\ Len(jniLog) = 4

====
